---- MODULE Spec2Model ----
(***************************************************************************)
(* Model of kafcat's rdkafka binding (src/rdkafka_impl.rs): one            *)
(* RdkafkaConsumer shared by a few caller tasks that run set_offset,       *)
(* for_each and stream() against the consumer's Arc<Mutex<StreamConsumer>>.*)
(* The rdkafka engine (offsets_for_times, assign, the message stream) is   *)
(* the environment: its answers are drawn nondeterministically.            *)
(***************************************************************************)
EXTENDS Integers, Sequences, FiniteSets, TLC

\* ------------------------------------------------------------------ bounds
OffsetBits == 3     \* width of the offset integers of the model (i64/isize scaled down)
MaxItems == 2       \* items the engine's message stream delivers in a run
MaxIdle == 11       \* seconds the idle clock is followed for

\* ------------------------------------------------------- program constants
ExitOnDoneSecs == 3      \* Duration::from_secs(3)
TailSecs == 3600         \* Duration::from_secs(3600)
DefaultPartition == 0    \* config.partition.unwrap_or(0)

\* the caller tasks sharing the consumer
Tasks == {1, 2}
NoTask == 0

IntMin == -(2 ^ (OffsetBits - 1))
IntMax == (2 ^ (OffsetBits - 1)) - 1
IntRange == IntMin..IntMax

\* two's complement wrap-around into IntRange
WrapInt(x) == ((x - IntMin) % (2 ^ OffsetBits)) + IntMin

\* Option<T>: None is <<>>, Some(x) is <<x>>
Some(x) == <<x>>
NoneOpt == <<>>
UnwrapOr(opt, d) == IF opt = <<>> THEN d ELSE opt[1]

\* ------------------------------------------------------------ KafkaOffset
EndBounds == {IntMin, IntMax}
KafkaOffsets ==
    {<<"Beginning">>, <<"End">>, <<"Stored">>}
    \cup {<<"Offset", o>> : o \in IntRange}
    \cup {<<"OffsetInterval", b, e>> : b \in IntRange, e \in EndBounds}
    \cup {<<"TimeInterval", b, e>> : b \in IntRange, e \in EndBounds}

\* (-o - 1): with overflow checks the negation of the minimum panics, without
\* them it wraps; both builds are possible.
NegMinusOne(o) ==
    IF -o > IntMax
    THEN {<<"Panic">>, <<"OffsetTail", WrapInt(WrapInt(-o) - 1)>>}
    ELSE {<<"OffsetTail", WrapInt(-o - 1)>>}

ResolveLocalOffByOne(a) ==
    CASE a[1] = "Beginning" -> {<<"Beginning">>}
      [] a[1] = "End" -> {<<"End">>}
      [] a[1] = "Stored" -> {<<"Stored">>}
      [] a[1] = "Offset" /\ a[2] > 0 -> {<<"Offset", a[2]>>}
      [] a[1] = "Offset" -> NegMinusOne(a[2])
      [] a[1] = "OffsetInterval" -> {<<"Offset", a[2]>>}

ResolveLocalIntervalEnd(a) ==
    CASE a[1] = "Beginning" -> {<<"Beginning">>}
      [] a[1] = "End" -> {<<"End">>}
      [] a[1] = "Stored" -> {<<"Stored">>}
      [] a[1] = "Offset" /\ a[2] >= 0 -> {<<"Offset", a[2]>>}
      [] a[1] = "Offset" -> NegMinusOne(a[2])
      [] a[1] = "OffsetInterval" -> {<<"Offset", a[3]>>}

\* the match arms of set_offset that need no broker round-trip: the set of
\* outcomes (an rdkafka Offset, or <<"Panic">>)
ResolveLocal(a) ==
    CASE a[1] = "Beginning" -> {<<"Beginning">>}
      [] a[1] = "End" -> {<<"End">>}
      [] a[1] = "Stored" -> {<<"Stored">>}
      [] a[1] = "Offset" /\ a[2] >= 0 -> {<<"Offset", a[2]>>}
      [] a[1] = "Offset" -> NegMinusOne(a[2])
      [] a[1] = "OffsetInterval" -> {<<"Offset", a[2]>>}

\* ----------------------------------------------------------------- engine
Topic == "topic"

\* one entry of a TopicPartitionList
Elem(topic, partition, offset) ==
    [topic |-> topic, partition |-> partition, offset |-> offset]

\* Offset::to_raw is Some: an absolute offset is not negative and a tail
\* count is positive; the symbolic offsets always have a raw value
ToRawIsSome(offset) ==
    CASE offset[1] = "Offset" -> offset[2] >= 0
      [] offset[1] = "OffsetTail" -> offset[2] > 0
      [] OTHER -> TRUE

\* TopicPartitionList::add_partition_offset: KafkaResult, Err
\* (SetPartitionOffset) for an offset without raw value, else the list
\* extended by the entry
AddPartitionOffset(tpl, topic, partition, offset) ==
    IF ToRawIsSome(offset)
    THEN <<"Ok", Append(tpl, Elem(topic, partition, offset))>>
    ELSE <<"Err">>

\* TopicPartitionList::find_partition: Option<elem>
FindPartition(tpl, topic, partition) ==
    LET hits == {i \in 1..Len(tpl) : tpl[i].topic = topic /\ tpl[i].partition = partition}
    IN IF hits = {} THEN NoneOpt
       ELSE Some(tpl[CHOOSE i \in hits : \A j \in hits : i <= j])

\* the broker's time index: timestamps of the records of each partition
BrokerTimes(partition) == IF partition = 0 THEN <<0, 1>> ELSE <<1>>

\* earliest offset whose timestamp is >= ts, End when there is none
TimeIndex(partition, ts) ==
    LET times == BrokerTimes(partition)
        hits == {i \in 1..Len(times) : times[i] >= ts}
    IN IF hits = {} THEN <<"End">>
       ELSE <<"Offset", (CHOOSE i \in hits : \A j \in hits : i <= j) - 1>>

\* StreamConsumer::offsets_for_times: the possible answers to a request
\* (Ok with the partition resolved, Ok without the partition, Err)
OffsetsForTimes(req) ==
    {<<"Err">>, <<"Ok", <<>>>>}
    \cup {<<"Ok", <<Elem(req[1].topic, req[1].partition,
                         TimeIndex(req[1].partition, req[1].offset[2]))>>>>}

LookupKeyIsEnd(a) == a[3]
\* the timestamp the time lookup is keyed by: b of TimeInterval(b, _e)
LookupKey(a) == a[2]

EngineAssignAccumulate(cur, tpl) == cur \o tpl

UnwrapFoundOrDefault(found) ==
    IF found = NoneOpt THEN <<"Ok", [offset |-> <<"Beginning">>]>> ELSE <<"Ok", found[1]>>
\* find_partition(..).unwrap(): the entry, or a panic when there is none
UnwrapFound(found) ==
    IF found = NoneOpt THEN <<"Panic">> ELSE <<"Ok", found[1]>>

\* StreamConsumer::assign replaces the assignment by the list given
EngineAssign(cur, tpl) == tpl

\* BorrowedMessage as the engine delivers it: key and payload are optional,
\* the timestamp may be unavailable
BorrowedMessages ==
    { [key |-> Some(<<1>>), payload |-> Some(<<2>>), timestamp |-> Some(5)],
      [key |-> NoneOpt, payload |-> Some(<<3>>), timestamp |-> Some(6)],
      [key |-> Some(<<>>), payload |-> NoneOpt, timestamp |-> NoneOpt] }

\* items of the engine's MessageStream
EngineItems == {<<"Err">>} \cup {<<"Msg", m>> : m \in BorrowedMessages}

\* process / the closure of for_each: BorrowedMessage -> RdkafkaMessage;
\* defined when the timestamp is available (unwrap panics otherwise)
CanProcess(m) == m.timestamp # NoneOpt
process(m) ==
    [key |-> UnwrapOr(m.key, <<>>),
     payload |-> UnwrapOr(m.payload, <<>>),
     timestamp |-> m.timestamp[1]]

HandOverFirst(h, m) == <<m>> \o h
\* try_for_each / poll_next hand each converted message over as it arrives:
\* the caller has seen h, then m
HandOver(h, m) == Append(h, m)

\* --------------------------------------------------------------- tokio Mutex
\* fair (FIFO) mutex: lock()/lock_owned() takes a free lock or queues
LockRequest(h, w, p) == IF h = NoTask THEN <<p, w>> ELSE <<h, Append(w, p)>>
LockReleaseKeeps(h, w) == <<h, w>>
\* dropping the guard hands the lock to the first waiter
LockRelease(h, w) == IF w = <<>> THEN <<NoTask, w>> ELSE <<Head(w), Tail(w)>>

DropStreamImplLeaks(h, w) == <<h, w>>
\* dropping RdkafkaStreamImpl drops its field stream, the OwnedMutexGuard
DropStreamImpl(h, w) == LockRelease(h, w)

ClosureEndKeepsGuard(h, w) == <<h, w>>
\* the spawn_blocking closure of set_offset owns the OwnedMutexGuard moved
\* into it and drops it when it returns or unwinds
ClosureEnd(h, w) == LockRelease(h, w)

AcquiredNoWait(h, w, p) == TRUE
\* lock().await / lock_owned().await completes once the task owns the lock
\* and its request is no longer queued
Acquired(h, w, p) == h = p /\ \A i \in 1..Len(w) : w[i] # p

\* ------------------------------------------------------------------ timeout
IdleTimeoutAlwaysLong(exit_on_done) == TailSecs
IdleTimeoutAlwaysShort(exit_on_done) == ExitOnDoneSecs
\* the duration for_each passes to timeout()
IdleTimeout(exit_on_done) == IF exit_on_done THEN ExitOnDoneSecs ELSE TailSecs

\* TimeoutStream: the stream ends (None) when nothing arrived for dur
TimedOut(idleSecs, dur) == idleSecs >= dur

VARIABLES
    config,      \* KafkaConsumerConfig: topic, partition (Option), exit_on_done
    holder,      \* owner of the Mutex<StreamConsumer>, NoTask when free
    waiters,     \* tasks queued on the mutex
    assignment,  \* the engine's current assignment (a TopicPartitionList)
    delivered,   \* items the engine's message stream has delivered
    handed,      \* RdkafkaMessages handed to a caller (stream item or handler call)
    idle,        \* seconds since the polled message stream last delivered
    pc,          \* per task: where it is
    op,          \* per task: the operation in flight
    arg,         \* per task: the KafkaOffset passed to set_offset
    offset,      \* per task: the resolved Offset (Option)
    tpl,         \* per task: the local tpl of set_offset
    tpl_b,       \* per task: the request list of the time lookup
    resp,        \* per task: the list offsets_for_times returned (Option)
    result,      \* per task: "none", "Ok", "KafkaErr", "HandlerErr", "Panic", "Dropped"
    lookups,     \* per task: offsets_for_times calls made by the operation
    assigns,     \* per task: assign calls made by the operation
    pulled,      \* per task: Ok items pulled from the engine by the operation
    invoked,     \* per task: handler invocations of the operation
    errSeen,     \* per task: the live stream has yielded an Err item
    lastItem,    \* per task: the last item of the live stream: "none", "Ok", "Err"
    auth,        \* the auth part of the configuration given to from_config
    consumer,    \* the RdkafkaConsumer: "none", "created", "panic"
    producer,    \* the RdkafkaProducer: "none", "created", "panic"
    wpc,         \* write_one: "idle", "sending", "done"
    wmsg,        \* write_one: the message passed (Option)
    record,      \* write_one: the FutureRecord built (Option)
    sends,       \* write_one: producer.send calls made by the call
    replies,     \* write_one: the engine's replies to those calls
    wresult,     \* write_one: "none", "Ok", "KafkaErr"
    readback     \* the sent record as a consumer converts it (Option)

conn == <<holder, waiters>>
engine == <<assignment, delivered, handed, idle>>
local == <<arg, offset, tpl, tpl_b, resp, lookups, assigns>>
strm == <<pulled, invoked, errSeen, lastItem>>
write == <<wpc, wmsg, record, sends, replies, wresult, readback>>
client == <<auth, consumer, producer, write>>
vars == <<config, holder, waiters, assignment, delivered, handed, idle, pc, op, arg,
          offset, tpl, tpl_b, resp, result, lookups, assigns, pulled, invoked, errSeen,
          lastItem, auth, consumer, producer, wpc, wmsg, record, sends, replies, wresult,
          readback>>

Partition == UnwrapOr(config.partition, DefaultPartition)

\* a message no write_one call is working on
InitWrite ==
    /\ wpc = "idle"
    /\ wmsg = NoneOpt
    /\ record = NoneOpt
    /\ sends = 0
    /\ replies = <<>>
    /\ wresult = "none"
    /\ readback = NoneOpt

\* the consumer as from_config returned it, for a plaintext configuration; no
\* producer
InitBuilt ==
    /\ auth = [protocol |-> "Plaintext", tls |-> NoneOpt]
    /\ consumer = "created"
    /\ producer = "none"
    /\ InitWrite

\* the connection, the engine and the tasks before the first operation
InitRest ==
    /\ holder = NoTask
    /\ waiters = <<>>
    /\ assignment = <<>>
    /\ delivered = <<>>
    /\ handed = <<>>
    /\ idle = 0
    /\ pc = [p \in Tasks |-> "idle"]
    /\ op = [p \in Tasks |-> "none"]
    /\ arg = [p \in Tasks |-> <<>>]
    /\ offset = [p \in Tasks |-> NoneOpt]
    /\ tpl = [p \in Tasks |-> <<>>]
    /\ tpl_b = [p \in Tasks |-> <<>>]
    /\ resp = [p \in Tasks |-> NoneOpt]
    /\ result = [p \in Tasks |-> "none"]
    /\ lookups = [p \in Tasks |-> 0]
    /\ assigns = [p \in Tasks |-> 0]
    /\ pulled = [p \in Tasks |-> 0]
    /\ invoked = [p \in Tasks |-> 0]
    /\ errSeen = [p \in Tasks |-> FALSE]
    /\ lastItem = [p \in Tasks |-> "none"]

\* consumption: a consumer of partition 0 (the default), either idle policy
Init ==
    /\ config \in [topic : {Topic}, partition : {NoneOpt}, exit_on_done : BOOLEAN]
    /\ InitRest
    /\ InitBuilt

\* offset resolution: a tailing consumer, partition left out or given
InitOffsets ==
    /\ config \in [topic : {Topic}, partition : {NoneOpt, Some(1)}, exit_on_done : {FALSE}]
    /\ InitRest
    /\ InitBuilt

\* the task requests the mutex
Request(p) ==
    /\ holder' = LockRequest(holder, waiters, p)[1]
    /\ waiters' = LockRequest(holder, waiters, p)[2]

\* the task's guard is dropped; the idle clock belongs to the next poller
Release ==
    /\ holder' = LockRelease(holder, waiters)[1]
    /\ waiters' = LockRelease(holder, waiters)[2]

\* ------------------------------------------------------------- set_offset
\* set_offset up to its first await: the match on the offset, and for the
\* arms without round-trip also tpl.add_partition_offset and the lock request
SetOffset(p, a) ==
    /\ pc[p] = "idle"
    /\ op' = [op EXCEPT ![p] = "set_offset"]
    /\ arg' = [arg EXCEPT ![p] = a]
    /\ IF a[1] = "TimeInterval"
       THEN /\ Request(p)
            /\ pc' = [pc EXCEPT ![p] = "so_lookup_lock"]
            /\ UNCHANGED <<offset, tpl, result>>
       ELSE \E o \in ResolveLocal(a) :
              IF o = <<"Panic">>
              THEN /\ pc' = [pc EXCEPT ![p] = "done"]
                   /\ result' = [result EXCEPT ![p] = "Panic"]
                   /\ UNCHANGED <<holder, waiters, offset, tpl>>
              ELSE LET added == AddPartitionOffset(<<>>, config.topic, Partition, o)
                   IN /\ offset' = [offset EXCEPT ![p] = Some(o)]
                      /\ IF added[1] = "Err"
                         THEN /\ pc' = [pc EXCEPT ![p] = "done"]
                              /\ result' = [result EXCEPT ![p] = "Panic"]
                              /\ UNCHANGED <<holder, waiters, tpl>>
                         ELSE /\ tpl' = [tpl EXCEPT ![p] = added[2]]
                              /\ Request(p)
                              /\ pc' = [pc EXCEPT ![p] = "so_assign_lock"]
                              /\ UNCHANGED result
    /\ UNCHANGED <<config, client, engine, tpl_b, resp, lookups, assigns, strm>>

\* a pending lock().await / lock_owned().await completes
LockAcquired(p) ==
    /\ pc[p] \in {"so_lookup_lock", "so_assign_lock", "fe_lock", "stream_lock"}
    /\ Acquired(holder, waiters, p)
    /\ pc' = [pc EXCEPT ![p] =
                 CASE pc[p] = "so_lookup_lock" -> "so_lookup"
                   [] pc[p] = "so_assign_lock" -> "so_assign"
                   [] pc[p] = "fe_lock" -> "polling"
                   [] pc[p] = "stream_lock" -> "streaming"]
    /\ idle' = 0
    /\ UNCHANGED <<config, client, conn, assignment, delivered, handed, op, result, local, strm>>

\* the spawn_blocking closure: build tpl_b, offsets_for_times, find_partition;
\* the owned guard moved into the closure is dropped when it ends
Lookup(p) ==
    /\ pc[p] = "so_lookup"
    /\ LET added == AddPartitionOffset(<<>>, config.topic, Partition,
                                       <<"Offset", LookupKey(arg[p])>>)
       IN IF added[1] = "Err"
          THEN /\ pc' = [pc EXCEPT ![p] = "so_joined_err"]
               /\ UNCHANGED <<offset, tpl_b, resp, lookups>>
          ELSE /\ tpl_b' = [tpl_b EXCEPT ![p] = added[2]]
               /\ lookups' = [lookups EXCEPT ![p] = @ + 1]
               /\ \E r \in OffsetsForTimes(added[2]) :
                    IF r[1] = "Err"
                    THEN /\ pc' = [pc EXCEPT ![p] = "so_joined_err"]
                         /\ UNCHANGED <<offset, resp>>
                    ELSE LET found == UnwrapFound(FindPartition(r[2], config.topic, Partition))
                         IN /\ resp' = [resp EXCEPT ![p] = Some(r[2])]
                            /\ IF found = <<"Panic">>
                               THEN /\ pc' = [pc EXCEPT ![p] = "so_joined_panic"]
                                    /\ UNCHANGED offset
                               ELSE /\ pc' = [pc EXCEPT ![p] = "so_joined_ok"]
                                    /\ offset' = [offset EXCEPT ![p] = Some(found[2].offset)]
    /\ holder' = ClosureEnd(holder, waiters)[1]
    /\ waiters' = ClosureEnd(holder, waiters)[2]
    /\ UNCHANGED <<config, client, engine, op, arg, tpl, result, assigns, strm>>

\* set_offset resumes with the JoinHandle's result: expect, map_err and ?,
\* then tpl.add_partition_offset and the lock request of the assign
LookupJoined(p) ==
    /\ pc[p] \in {"so_joined_ok", "so_joined_err", "so_joined_panic"}
    /\ IF pc[p] = "so_joined_ok"
       THEN LET added == AddPartitionOffset(<<>>, config.topic, Partition, offset[p][1])
            IN IF added[1] = "Err"
               THEN /\ pc' = [pc EXCEPT ![p] = "done"]
                    /\ result' = [result EXCEPT ![p] = "Panic"]
                    /\ UNCHANGED <<holder, waiters, tpl>>
               ELSE /\ tpl' = [tpl EXCEPT ![p] = added[2]]
                    /\ Request(p)
                    /\ pc' = [pc EXCEPT ![p] = "so_assign_lock"]
                    /\ UNCHANGED result
       ELSE /\ pc' = [pc EXCEPT ![p] = "done"]
            /\ result' = [result EXCEPT ![p] =
                             IF pc[p] = "so_joined_err" THEN "KafkaErr" ELSE "Panic"]
            /\ UNCHANGED <<holder, waiters, tpl>>
    /\ UNCHANGED <<config, client, engine, op, arg, offset, tpl_b, resp, lookups, assigns, strm>>

\* self.stream.lock().await.assign(&tpl): the engine accepts or rejects, the
\* temporary guard is dropped at the end of the statement
Assign(p) ==
    /\ pc[p] = "so_assign"
    /\ assigns' = [assigns EXCEPT ![p] = @ + 1]
    /\ \E ok \in BOOLEAN :
         IF ok
         THEN /\ assignment' = EngineAssign(assignment, tpl[p])
              /\ result' = [result EXCEPT ![p] = "Ok"]
         ELSE /\ result' = [result EXCEPT ![p] = "KafkaErr"]
              /\ UNCHANGED assignment
    /\ pc' = [pc EXCEPT ![p] = "done"]
    /\ Release
    /\ UNCHANGED <<config, client, delivered, handed, idle, op, arg, offset, tpl, tpl_b, resp,
                   lookups, strm>>

\* --------------------------------------------------------------- for_each
\* for_each up to lock_owned().await
ForEach(p) ==
    /\ pc[p] = "idle"
    /\ op' = [op EXCEPT ![p] = "for_each"]
    /\ Request(p)
    /\ pc' = [pc EXCEPT ![p] = "fe_lock"]
    /\ UNCHANGED <<config, client, engine, result, local, strm>>

\* the timed-out message stream yields an item to try_for_each: an Err ends
\* for_each, a message is converted and handed to the handler
ForEachItem(p, item) ==
    /\ pc[p] = "polling"
    /\ Len(delivered) < MaxItems
    /\ delivered' = Append(delivered, item)
    /\ idle' = 0
    /\ IF item[1] = "Err"
       THEN /\ pc' = [pc EXCEPT ![p] = "done"]
            /\ result' = [result EXCEPT ![p] = "KafkaErr"]
            /\ Release
            /\ UNCHANGED <<handed, pulled, invoked>>
       ELSE /\ pulled' = [pulled EXCEPT ![p] = @ + 1]
            /\ IF CanProcess(item[2])
               THEN /\ handed' = HandOver(handed, process(item[2]))
                    /\ invoked' = [invoked EXCEPT ![p] = @ + 1]
                    /\ pc' = [pc EXCEPT ![p] = "handling"]
                    /\ UNCHANGED <<conn, result>>
               ELSE /\ pc' = [pc EXCEPT ![p] = "done"]
                    /\ result' = [result EXCEPT ![p] = "Panic"]
                    /\ Release
                    /\ UNCHANGED <<handed, invoked>>
    /\ UNCHANGED <<config, client, assignment, op, local, errSeen, lastItem>>

\* the handler's future completes: Ok polls on, Err ends for_each
ForEachHandled(p, ok) ==
    /\ pc[p] = "handling"
    /\ IF ok
       THEN /\ pc' = [pc EXCEPT ![p] = "polling"]
            /\ UNCHANGED <<conn, result>>
       ELSE /\ pc' = [pc EXCEPT ![p] = "done"]
            /\ result' = [result EXCEPT ![p] = "HandlerErr"]
            /\ Release
    /\ idle' = 0
    /\ UNCHANGED <<config, client, assignment, delivered, handed, op, local, strm>>

\* the idle timeout expires: the stream ends, try_for_each returns Ok(())
ForEachTimeout(p) ==
    /\ pc[p] = "polling"
    /\ TimedOut(idle, IdleTimeout(config.exit_on_done))
    /\ pc' = [pc EXCEPT ![p] = "done"]
    /\ result' = [result EXCEPT ![p] = "Ok"]
    /\ Release
    /\ idle' = 0
    /\ UNCHANGED <<config, client, assignment, delivered, handed, op, local, strm>>

\* ----------------------------------------------------------------- stream
\* stream() up to lock_owned().await
Stream(p) ==
    /\ pc[p] = "idle"
    /\ op' = [op EXCEPT ![p] = "stream"]
    /\ Request(p)
    /\ pc' = [pc EXCEPT ![p] = "stream_lock"]
    /\ UNCHANGED <<config, client, engine, result, local, strm>>

\* RdkafkaStreamImpl::poll_next polls stream4 (stream2.map_err.map_ok, with no
\* timeout) and returns Ready(Some(item)); nothing in it returns Ready(None)
StreamItem(p, item) ==
    /\ pc[p] = "streaming"
    /\ Len(delivered) < MaxItems
    /\ delivered' = Append(delivered, item)
    /\ idle' = 0
    /\ IF item[1] = "Err"
       THEN /\ errSeen' = [errSeen EXCEPT ![p] = TRUE]
            /\ lastItem' = [lastItem EXCEPT ![p] = "Err"]
            /\ UNCHANGED <<conn, handed, pc, result, pulled>>
       ELSE /\ pulled' = [pulled EXCEPT ![p] = @ + 1]
            /\ IF CanProcess(item[2])
               THEN /\ handed' = HandOver(handed, process(item[2]))
                    /\ lastItem' = [lastItem EXCEPT ![p] = "Ok"]
                    /\ UNCHANGED <<conn, pc, result, errSeen>>
               ELSE /\ pc' = [pc EXCEPT ![p] = "done"]
                    /\ result' = [result EXCEPT ![p] = "Panic"]
                    /\ Release
                    /\ UNCHANGED <<handed, errSeen, lastItem>>
    /\ UNCHANGED <<config, client, assignment, op, local, invoked>>

\* the caller drops the RdkafkaStreamImpl, and with it the owned guard
StreamDrop(p) ==
    /\ pc[p] = "streaming"
    /\ pc' = [pc EXCEPT ![p] = "done"]
    /\ result' = [result EXCEPT ![p] = "Dropped"]
    /\ holder' = DropStreamImpl(holder, waiters)[1]
    /\ waiters' = DropStreamImpl(holder, waiters)[2]
    /\ idle' = 0
    /\ pulled' = [pulled EXCEPT ![p] = 0]
    /\ errSeen' = [errSeen EXCEPT ![p] = FALSE]
    /\ lastItem' = [lastItem EXCEPT ![p] = "none"]
    /\ UNCHANGED <<config, client, assignment, delivered, handed, op, local, invoked>>

\* ------------------------------------------------------------ environment
\* a second passes with no item from the polled message stream
Tick ==
    /\ holder # NoTask
    /\ pc[holder] \in {"polling", "streaming"}
    /\ idle < MaxIdle
    /\ pc[holder] = "polling" => ~TimedOut(idle, IdleTimeout(config.exit_on_done))
    /\ idle' = idle + 1
    /\ UNCHANGED <<config, client, conn, assignment, delivered, handed, pc, op, result, local, strm>>

\* the caller has the operation's outcome; the task is free for the next call
Finish(p) ==
    /\ pc[p] = "done"
    /\ pc' = [pc EXCEPT ![p] = "idle"]
    /\ op' = [op EXCEPT ![p] = "none"]
    /\ arg' = [arg EXCEPT ![p] = <<>>]
    /\ offset' = [offset EXCEPT ![p] = NoneOpt]
    /\ tpl' = [tpl EXCEPT ![p] = <<>>]
    /\ tpl_b' = [tpl_b EXCEPT ![p] = <<>>]
    /\ resp' = [resp EXCEPT ![p] = NoneOpt]
    /\ result' = [result EXCEPT ![p] = "none"]
    /\ lookups' = [lookups EXCEPT ![p] = 0]
    /\ assigns' = [assigns EXCEPT ![p] = 0]
    /\ pulled' = [pulled EXCEPT ![p] = 0]
    /\ invoked' = [invoked EXCEPT ![p] = 0]
    /\ errSeen' = [errSeen EXCEPT ![p] = FALSE]
    /\ lastItem' = [lastItem EXCEPT ![p] = "none"]
    /\ UNCHANGED <<config, client, conn, engine>>

\* the offsets the callers of the consumption runs seek to
SeekOffsets == {<<"Beginning">>, <<"TimeInterval", 0, IntMax>>}

Next ==
    \/ \E p \in Tasks, a \in SeekOffsets : SetOffset(p, a)
    \/ \E p \in Tasks : LockAcquired(p)
    \/ \E p \in Tasks : Lookup(p)
    \/ \E p \in Tasks : LookupJoined(p)
    \/ \E p \in Tasks : Assign(p)
    \/ \E p \in Tasks : ForEach(p)
    \/ \E p \in Tasks, item \in EngineItems : ForEachItem(p, item)
    \/ \E p \in Tasks, ok \in BOOLEAN : ForEachHandled(p, ok)
    \/ \E p \in Tasks : ForEachTimeout(p)
    \/ \E p \in Tasks : Stream(p)
    \/ \E p \in Tasks, item \in EngineItems : StreamItem(p, item)
    \/ \E p \in Tasks : StreamDrop(p)
    \/ Tick
    \/ \E p \in Tasks : Finish(p)

Spec == Init /\ [][Next]_vars

\* the lease runs: an exit-on-done consumer, so that for_each ends by itself
InitLease ==
    /\ config \in [topic : {Topic}, partition : {NoneOpt}, exit_on_done : {TRUE}]
    /\ InitRest
    /\ InitBuilt

\* the runtime polls a task whose lock request has been granted
SpecFair == InitLease /\ [][Next]_vars /\ \A p \in Tasks : WF_vars(LockAcquired(p))

\* set_offset alone: task 1 over every KafkaOffset, beside a competing caller
CallOffsets(p) == IF p = 1 THEN KafkaOffsets ELSE SeekOffsets

NextOffsets ==
    \/ \E p \in Tasks : \E a \in CallOffsets(p) : SetOffset(p, a)
    \/ \E p \in Tasks : LockAcquired(p)
    \/ \E p \in Tasks : Lookup(p)
    \/ \E p \in Tasks : LookupJoined(p)
    \/ \E p \in Tasks : Assign(p)
    \/ \E p \in Tasks : Finish(p)

SpecOffsets == InitOffsets /\ [][NextOffsets]_vars

\* set_offset calls alone on a consumer of the default partition (the idle
\* policy plays no part in them), under a fair mutex and a runtime that runs every
\* step that stays possible: a granted lock request resumes, the blocking
\* lookup returns, the join and the assign complete
SpecOffsetsFair ==
    /\ InitLease
    /\ [][NextOffsets]_vars
    /\ \A p \in Tasks :
         /\ WF_vars(LockAcquired(p))
         /\ WF_vars(Lookup(p))
         /\ WF_vars(LookupJoined(p))
         /\ WF_vars(Assign(p))

\* ------------------------------------------------- construction, producer
\* the auth configurations a caller can hand over
AuthConfigs ==
    [protocol : {"Plaintext", "SaslPlaintext", "Ssl", "SaslSsl"},
     tls : {NoneOpt, Some("tls")}]

\* the RdkafkaMessages the callers of write_one pass
WriteMessages == [key : {<<>>, <<1>>}, payload : {<<>>, <<2>>}, timestamp : {0}]

AttachAlways(bytes) == Some(bytes)
\* if bytes.len() > 0 { record = record.key(bytes) / record.payload(bytes) }
Attach(bytes) == IF Len(bytes) > 0 THEN Some(bytes) ELSE NoneOpt

\* the FutureRecord write_one builds: no timestamp, no partition
BuildRecord(topic, m) ==
    [topic |-> topic, key |-> Attach(m.key), payload |-> Attach(m.payload)]

\* the record as the engine delivers it to a consumer: key and payload as
\* sent (absent when not attached), the timestamp set by the broker
EngineDelivers(rec) ==
    [key |-> rec.key, payload |-> rec.payload, timestamp |-> Some(1)]

OnSendErrorRetry(n) == IF n < 2 THEN <<"sending", n + 1>> ELSE <<"done", n>>
\* .map_err(..)? on the send future: the error is returned; where write_one
\* goes and the number of send calls it has made
OnSendError(n) == <<"done", n>>

\* nothing is constructed yet; any auth configuration
InitClient ==
    /\ config = [topic |-> Topic, partition |-> NoneOpt, exit_on_done |-> FALSE]
    /\ InitRest
    /\ InitWrite
    /\ auth \in AuthConfigs
    /\ consumer = "none"
    /\ producer = "none"

\* RdkafkaConsumer::from_config: the ClientConfig gets group.id,
\* bootstrap.servers and three fixed settings, then create().expect(..); the
\* auth part of the configuration is not read
FromConfig ==
    /\ consumer = "none"
    /\ \E created \in BOOLEAN :
         consumer' = IF created THEN "created" ELSE "panic"
    /\ UNCHANGED <<config, conn, engine, pc, op, result, local, strm, auth, producer, write>>

\* RdkafkaProducer::from_config: bootstrap.servers and message.timeout.ms,
\* then create().expect(..)
ProducerFromConfig ==
    /\ producer = "none"
    /\ \E created \in BOOLEAN :
         producer' = IF created THEN "created" ELSE "panic"
    /\ UNCHANGED <<config, conn, engine, pc, op, result, local, strm, auth, consumer, write>>

\* write_one up to the await of the send future: the record is built and
\* producer.send is called
WriteOne(m) ==
    /\ producer = "created"
    /\ wpc = "idle"
    /\ wmsg' = Some(m)
    /\ record' = Some(BuildRecord(config.topic, m))
    /\ sends' = sends + 1
    /\ wpc' = "sending"
    /\ UNCHANGED <<config, conn, engine, pc, op, result, local, strm, auth, consumer,
                   producer, replies, wresult, readback>>

\* the send future completes: Ok returns Ok(()), an error is returned by ?
SendDone(ok) ==
    /\ wpc = "sending"
    /\ replies' = Append(replies, IF ok THEN "Ok" ELSE "Err")
    /\ IF ok
       THEN /\ wpc' = "done"
            /\ wresult' = "Ok"
            /\ UNCHANGED sends
       ELSE /\ wpc' = OnSendError(sends)[1]
            /\ sends' = OnSendError(sends)[2]
            /\ wresult' = IF OnSendError(sends)[1] = "done" THEN "KafkaErr" ELSE wresult
    /\ UNCHANGED <<config, conn, engine, pc, op, result, local, strm, auth, consumer,
                   producer, wmsg, record, readback>>

\* a consumer receives the record that was sent and converts it (process)
ReadBack ==
    /\ consumer = "created"
    /\ wpc = "done" /\ wresult = "Ok"
    /\ readback = NoneOpt
    /\ readback' = Some(process(EngineDelivers(record[1])))
    /\ UNCHANGED <<config, conn, engine, pc, op, result, local, strm, auth, consumer,
                   producer, wpc, wmsg, record, sends, replies, wresult>>

\* the caller has the result of write_one
WriteFinish ==
    /\ wpc = "done"
    /\ wpc' = "idle"
    /\ wmsg' = NoneOpt
    /\ record' = NoneOpt
    /\ sends' = 0
    /\ replies' = <<>>
    /\ wresult' = "none"
    /\ readback' = NoneOpt
    /\ UNCHANGED <<config, conn, engine, pc, op, result, local, strm, auth, consumer, producer>>

NextClient ==
    \/ FromConfig
    \/ ProducerFromConfig
    \/ \E m \in WriteMessages : WriteOne(m)
    \/ \E ok \in BOOLEAN : SendDone(ok)
    \/ ReadBack
    \/ WriteFinish

SpecClient == InitClient /\ [][NextClient]_vars

\* ----------------------------------------------------------------- claims
\* where a task holds the connection: inside the time lookup, inside assign,
\* polling or handling in for_each, or owning a live RdkafkaStreamImpl
Critical == {"so_lookup", "so_assign", "polling", "handling", "streaming"}
LockPcs == {"so_lookup_lock", "so_assign_lock", "fe_lock", "stream_lock"}
ErrResults == {"KafkaErr", "HandlerErr"}
IsTimeInterval(a) == a # <<>> /\ a[1] = "TimeInterval"
IsNumeric(a) == a # <<>> /\ a[1] = "Offset"
\* the partition a consumer is bound to, spelled out from the configuration
ConfiguredPartition == IF config.partition = <<>> THEN 0 ELSE config.partition[1]

\* C1: with exit_on_done = true a stream from stream() that has had no item
\* for the idle window of 3 seconds has ended (it is no longer pending): a live
\* stream is never idle for longer than the window.
C1_StreamEndsAfterIdleWindow ==
    \A p \in Tasks :
        (config.exit_on_done /\ pc[p] = "streaming") => idle <= ExitOnDoneSecs

\* C2: with exit_on_done = true for_each never polls past 3 idle seconds; when
\* the window has passed with no item it returns Ok(()); and it returns an Err
\* only when the engine delivered an Err item or the handler returned one.
C2_ForEachIdleTimeoutIsOk ==
    [][\A p \in Tasks :
        /\ (config.exit_on_done /\ pc[p] = "polling") => idle <= ExitOnDoneSecs
        /\ (config.exit_on_done /\ pc[p] = "polling" /\ idle = ExitOnDoneSecs
              /\ delivered' = delivered /\ pc'[p] # "polling")
           => (pc'[p] = "done" /\ result'[p] = "Ok")
        /\ (pc[p] \in {"polling", "handling"} /\ result'[p] \in ErrResults)
           => \/ pc[p] = "handling" /\ result'[p] = "HandlerErr"
              \/ /\ pc[p] = "polling" /\ result'[p] = "KafkaErr"
                 /\ Len(delivered') = Len(delivered) + 1
                 /\ delivered'[Len(delivered')] = <<"Err">>
      ]_vars

\* for_each with exit_on_done = true has returned Ok(()) after 3 idle seconds
C2_Witness ==
    \E p \in Tasks :
        /\ config.exit_on_done /\ op[p] = "for_each" /\ pc[p] = "done"
        /\ result[p] = "Ok" /\ delivered = <<>>

\* C3: with exit_on_done = false, while at most 10 seconds have passed without
\* an item, no step without an item closes the consumption: for_each keeps
\* polling and a stream stays live unless its owner drops it.
C3_TailingStaysOpen ==
    [][(~config.exit_on_done /\ idle <= 10 /\ delivered' = delivered)
        => \A p \in Tasks :
            /\ pc[p] = "polling" => pc'[p] = "polling"
            /\ pc[p] = "streaming" => (pc'[p] = "streaming" \/ result'[p] = "Dropped")
      ]_vars

\* a tailing for_each still polling after 10 seconds without traffic
C3_Witness ==
    \E p \in Tasks : ~config.exit_on_done /\ pc[p] = "polling" /\ idle = 10

\* C4: for_each has invoked the handler once for every message the engine
\* delivered to it, and has stopped once it has an error to return.
C4_HandlerOncePerMessage ==
    \A p \in Tasks :
        op[p] = "for_each" =>
            /\ pc[p] \in {"polling", "done"} => invoked[p] = pulled[p]
            /\ pc[p] = "handling" => invoked[p] = pulled[p]
            /\ result[p] \in ErrResults => pc[p] = "done"

\* C5: once a stream from stream() has yielded an Err item it yields no
\* further Ok(message): the last item of a live stream that has yielded an Err
\* is that Err.
C5_ErrTerminatesStream ==
    \A p \in Tasks :
        (pc[p] = "streaming" /\ errSeen[p]) => lastItem[p] = "Err"

\* C6: at most one task is inside a section that uses the connection (time
\* lookup, assign, for_each, a live stream), and that task owns the mutex; in
\* particular while a stream is live no other task is inside such a section.
C6_ExclusiveConnection ==
    /\ \A p \in Tasks : pc[p] \in Critical => holder = p
    /\ \A p, q \in Tasks : (pc[p] \in Critical /\ pc[q] \in Critical) => p = q
    /\ \A p \in Tasks : pc[p] = "streaming" =>
           \A q \in Tasks \ {p} : pc[q] \notin Critical

\* a stream is live while another task waits for the connection
C6_Witness ==
    \E p, q \in Tasks :
        /\ pc[p] = "streaming" /\ pc[q] \in LockPcs /\ waiters = <<q>>

\* while a stream is live and a task waits, every step that keeps the stream
\* leaves the connection with the stream, and the step that drops the stream
\* gives the connection to the first waiting task
LeaseFollowsDrop ==
    [][\A s \in Tasks :
        (pc[s] = "streaming" /\ waiters # <<>>) =>
            /\ pc'[s] = "streaming" =>
                 /\ holder' = s
                 /\ \A w \in Tasks \ {s} : pc'[w] \notin Critical
            /\ pc'[s] # "streaming" => holder' = Head(waiters)
      ]_vars

\* C7: while a stream is live a waiting task is not given the connection by
\* any step but the drop of that stream; the drop gives it to the first waiting
\* task, and a task given the connection eventually enters its section.
C7_DropReleasesLease ==
    /\ LeaseFollowsDrop
    /\ \A w \in Tasks : (holder = w /\ pc[w] \in LockPcs) ~> (pc[w] \in Critical)

\* a task that waited behind a live stream owns the connection after the drop
C7_Witness ==
    \E s, w \in Tasks :
        /\ s # w /\ op[s] = "stream" /\ result[s] = "Dropped"
        /\ pc[w] \in Critical /\ holder = w

\* one offsets_for_times request by task p, for the configured topic and
\* partition (0 when none is configured) and keyed by b; when the call returns
\* Ok the list it assigned holds the offset the broker resolved for b; when the
\* request failed it returns an error and has called assign not at all
TimeLookupOnceFor(p) ==
    /\ lookups[p] = IF pc[p] \in {"so_lookup_lock", "so_lookup"} THEN 0 ELSE 1
    /\ lookups[p] = 1 =>
         tpl_b[p] = <<[topic |-> Topic, partition |-> ConfiguredPartition,
                       offset |-> <<"Offset", arg[p][2]>>]>>
    /\ (pc[p] = "done" /\ result[p] = "Ok") =>
         /\ assigns[p] = 1
         /\ tpl[p] = <<[topic |-> Topic, partition |-> ConfiguredPartition,
                        offset |-> TimeIndex(ConfiguredPartition, arg[p][2])]>>
    /\ pc[p] = "so_joined_err" => (assigns[p] = 0 /\ tpl[p] = <<>>)
    /\ (pc[p] = "done" /\ offset[p] = <<>>) =>
         (result[p] \in {"KafkaErr", "Panic"} /\ assigns[p] = 0 /\ tpl[p] = <<>>)

\* C8: set_offset(TimeInterval(b, _)) makes, for every b, one
\* offsets_for_times request for the configured topic and partition keyed by
\* b, assigns the offset resolved, and on a failed request returns an error
\* without assigning.
C8_TimeLookupOnce ==
    \A p \in Tasks : IsTimeInterval(arg[p]) => TimeLookupOnceFor(p)

\* C8 (amended): for b >= 0 set_offset(TimeInterval(b, _)) makes one
\* offsets_for_times request for the configured topic and partition keyed by
\* b, assigns the offset resolved, and on a failed request returns an error
\* without assigning; for b < 0 the request list does not take the offset b:
\* the call makes no request, assigns nothing and returns an error.
C8_TimeLookupNonNegative ==
    \A p \in Tasks :
        IsTimeInterval(arg[p]) =>
            /\ arg[p][2] >= 0 => TimeLookupOnceFor(p)
            /\ arg[p][2] < 0 =>
                 /\ lookups[p] = 0 /\ tpl_b[p] = <<>> /\ resp[p] = NoneOpt
                 /\ offset[p] = NoneOpt /\ tpl[p] = <<>> /\ assigns[p] = 0
                 /\ pc[p] \in {"so_lookup_lock", "so_lookup", "so_joined_err", "done"}
                 /\ pc[p] = "done" => result[p] = "KafkaErr"

\* on a consumer with no partition configured one time-based set_offset has
\* returned Ok and the engine holds the resolved offset, and another, whose
\* round-trip failed, has returned the error
C8_Witness ==
    \E p, q \in Tasks :
        /\ IsTimeInterval(arg[p]) /\ arg[p][2] = 1 /\ pc[p] = "done" /\ result[p] = "Ok"
        /\ config.partition = <<>>
        /\ assignment = <<[topic |-> Topic, partition |-> 0, offset |-> <<"Offset", 1>>]>>
        /\ IsTimeInterval(arg[q]) /\ pc[q] = "done" /\ result[q] = "KafkaErr"
        /\ lookups[q] = 1 /\ offset[q] = <<>>

\* C9: the engine's assignment is empty or one entry for the configured
\* topic and partition; every successful set_offset leaves exactly the entry
\* with the offset that call resolved, and nothing else changes the assignment.
C9_AssignmentReplaced ==
    [][/\ assignment' # <<>> =>
            /\ Len(assignment') = 1
            /\ assignment'[1].topic = Topic
            /\ assignment'[1].partition = ConfiguredPartition
       /\ \A p \in Tasks :
            (pc[p] = "so_assign" /\ result'[p] = "Ok") =>
                assignment' = <<[topic |-> Topic, partition |-> ConfiguredPartition,
                                 offset |-> offset[p][1]]>>
       /\ assignment' # assignment =>
            \E p \in Tasks : pc[p] = "so_assign" /\ result'[p] = "Ok"
      ]_vars

\* two successful calls with different offsets: the engine holds the later one
C9_Witness ==
    \E p, q \in Tasks :
        /\ p # q
        /\ pc[p] = "done" /\ result[p] = "Ok" /\ op[p] = "set_offset"
        /\ pc[q] = "done" /\ result[q] = "Ok" /\ op[q] = "set_offset"
        /\ offset[p] # offset[q]
        /\ assignment = tpl[p]

\* C10: set_offset(Offset(n)) with n >= 0 makes no offsets_for_times request
\* and does not abort, and its successful assign leaves the engine with
\* exactly Offset(n) for the configured topic and partition.
C10_AbsoluteOffsetExact ==
    [][\A p \in Tasks :
        (IsNumeric(arg'[p]) /\ arg'[p][2] >= 0) =>
            /\ lookups'[p] = 0 /\ tpl_b'[p] = <<>>
            /\ result'[p] # "Panic"
            /\ pc'[p] \in {"so_assign_lock", "so_assign", "done"}
            /\ (pc'[p] = "done" /\ result'[p] = "Ok") =>
                 /\ assigns'[p] = 1
                 /\ pc[p] = "so_assign" =>
                      assignment' = <<[topic |-> Topic, partition |-> ConfiguredPartition,
                                       offset |-> <<"Offset", arg'[p][2]>>]>>
      ]_vars

\* set_offset(Offset(IntMax)) has returned Ok and the engine holds Offset(IntMax)
C10_Witness ==
    \E p \in Tasks :
        /\ arg[p] = <<"Offset", IntMax>> /\ pc[p] = "done" /\ result[p] = "Ok"
        /\ lookups[p] = 0
        /\ assignment = <<[topic |-> Topic, partition |-> ConfiguredPartition,
                           offset |-> <<"Offset", IntMax>>]>>

\* C11: set_offset(Offset(n)) with n < 0, the minimum included, makes no
\* offsets_for_times request, does not abort on the arithmetic, and resolves
\* to OffsetTail(-n - 1).
C11_FromTailNoOverflow ==
    \A p \in Tasks :
        (IsNumeric(arg[p]) /\ arg[p][2] < 0) =>
            /\ lookups[p] = 0
            /\ result[p] # "Panic"
            /\ pc[p] \in {"so_assign_lock", "so_assign", "done"}
            /\ offset[p] # NoneOpt => offset[p][1] = <<"OffsetTail", -arg[p][2] - 1>>

IsOffsetInterval(a) == a # <<>> /\ a[1] = "OffsetInterval"

\* C12: set_offset(OffsetInterval(b, e)) makes no offsets_for_times request,
\* does not abort, and resolves, for every b and e, to an offset that
\* set_offset with the numeric offset b resolves to.
C12_IntervalSameAsNumeric ==
    \A p \in Tasks :
        IsOffsetInterval(arg[p]) =>
            /\ lookups[p] = 0
            /\ result[p] # "Panic"
            /\ offset[p] # NoneOpt
            /\ offset[p][1] \in ResolveLocal(<<"Offset", arg[p][2]>>)

\* C12 (amended): set_offset(OffsetInterval(b, e)) makes no offsets_for_times
\* request and resolves to Offset(b) whatever e is. For b >= 0 that is the
\* one offset the numeric offset b resolves to, the call does not abort and
\* its successful assign leaves the engine with Offset(b); for b < 0 the list
\* does not take the offset and the call aborts without assigning.
C12_IntervalNonNegativeBegin ==
    [][\A p \in Tasks :
        IsOffsetInterval(arg'[p]) =>
            /\ lookups'[p] = 0 /\ tpl_b'[p] = <<>>
            /\ offset'[p] = Some(<<"Offset", arg'[p][2]>>)
            /\ arg'[p][2] >= 0 =>
                 /\ ResolveLocal(<<"Offset", arg'[p][2]>>) = {offset'[p][1]}
                 /\ result'[p] # "Panic"
                 /\ pc'[p] \in {"so_assign_lock", "so_assign", "done"}
                 /\ (pc[p] = "so_assign" /\ pc'[p] = "done" /\ result'[p] = "Ok") =>
                      /\ assigns'[p] = 1
                      /\ assignment' = <<[topic |-> Topic, partition |-> ConfiguredPartition,
                                          offset |-> <<"Offset", arg'[p][2]>>]>>
            /\ arg'[p][2] < 0 =>
                 /\ pc'[p] = "done" /\ result'[p] = "Panic"
                 /\ tpl'[p] = <<>> /\ assigns'[p] = 0
      ]_vars

\* set_offset(OffsetInterval(IntMax, IntMin)) has returned Ok and the engine
\* holds Offset(IntMax)
C12_Witness ==
    \E p \in Tasks :
        /\ arg[p] = <<"OffsetInterval", IntMax, IntMin>>
        /\ pc[p] = "done" /\ result[p] = "Ok" /\ lookups[p] = 0
        /\ assignment = <<[topic |-> Topic, partition |-> ConfiguredPartition,
                           offset |-> <<"Offset", IntMax>>]>>

\* an item of the engine's stream that is a message the conversion accepts
Handable(item) == item[1] = "Msg" /\ CanProcess(item[2])

\* the conversions, in delivery order, of the messages among the items
ConvertedInOrder(items) ==
    LET sel == SelectSeq(items, Handable)
    IN [i \in 1..Len(sel) |-> process(sel[i][2])]

\* C13: the messages handed to the callers of stream() and for_each are the
\* conversions of the messages the engine delivered, in delivery order, each
\* once; a delivered message that is not handed over ends the call it was
\* delivered to, so that each call hands over a prefix of what it was given.
C13_HandedInDeliveryOrder ==
    [][/\ handed' = ConvertedInOrder(delivered')
       /\ \A p \in Tasks :
            (pc[p] \in {"polling", "streaming"} /\ Len(delivered') = Len(delivered) + 1) =>
                LET item == delivered'[Len(delivered')]
                IN /\ Handable(item) => handed' = Append(handed, process(item[2]))
                   /\ ~Handable(item) => handed' = handed
                   /\ (item[1] = "Msg" /\ ~Handable(item)) =>
                        (pc'[p] = "done" /\ result'[p] = "Panic")
      ]_vars

\* two different messages were delivered and handed over in that order
C13_Witness ==
    /\ Len(delivered) = 2 /\ Len(handed) = 2
    /\ delivered[1] # delivered[2]
    /\ handed[1] = process(delivered[1][2])
    /\ handed[2] = process(delivered[2][2])
    /\ handed[1] # handed[2]

\* the auth configurations the claim calls invalid: Ssl with no tls block, or
\* a SASL protocol
InvalidAuth(a) ==
    \/ a.protocol \in {"SaslPlaintext", "SaslSsl"}
    \/ a.protocol = "Ssl" /\ a.tls = NoneOpt

\* C14: the record write_one sends carries the message's key iff the key is
\* non-empty and its payload iff the payload is non-empty, each as given; the
\* record of a message with empty key and non-empty payload has no key, and
\* read back through process its key is the empty byte string and its payload
\* the one written.
C14_AttachIffNonEmpty ==
    wpc \in {"sending", "done"} =>
        LET m == wmsg[1]
            rec == record[1]
        IN /\ rec.topic = config.topic
           /\ rec.key # NoneOpt <=> m.key # <<>>
           /\ rec.key # NoneOpt => rec.key[1] = m.key
           /\ rec.payload # NoneOpt <=> m.payload # <<>>
           /\ rec.payload # NoneOpt => rec.payload[1] = m.payload
           /\ (m.key = <<>> /\ m.payload # <<>>) =>
                /\ rec.key = NoneOpt
                /\ readback # NoneOpt =>
                     (readback[1].key = <<>> /\ readback[1].payload = m.payload)

\* a message with empty key and non-empty payload was sent and read back
C14_Witness ==
    /\ wpc = "done" /\ wresult = "Ok"
    /\ wmsg[1].key = <<>> /\ wmsg[1].payload = <<2>>
    /\ record[1].key = NoneOpt /\ record[1].payload = Some(<<2>>)
    /\ readback # NoneOpt /\ readback[1].key = <<>>

\* C15: a write_one call makes one producer.send call: while it awaits the
\* reply it has made one, and when it has returned it has made one, the engine
\* has replied once, and the call returned Ok(()) for the reply Ok and the
\* error for a failed send.
C15_OneSendAttempt ==
    /\ wpc = "idle" => (sends = 0 /\ replies = <<>>)
    /\ wpc = "sending" => (sends = 1 /\ replies = <<>> /\ wresult = "none")
    /\ wpc = "done" =>
         /\ sends = 1
         /\ Len(replies) = 1
         /\ wresult = IF replies[1] = "Ok" THEN "Ok" ELSE "KafkaErr"

\* a write_one whose send failed has returned the error after one send call
C15_Witness ==
    wpc = "done" /\ replies = <<"Err">> /\ wresult = "KafkaErr" /\ sends = 1

\* C16: no consumer exists for an invalid auth configuration (Ssl with no tls
\* block, or a SASL protocol): from_config has not created the engine
\* connection for it.
C16_InvalidAuthNeverConnects ==
    InvalidAuth(auth) => consumer # "created"

\* C17: when the list offsets_for_times returned has no entry for the
\* configured topic and partition, set_offset aborts: it resolves no offset,
\* fills no list, calls assign not at all and ends with a panic, never Ok.
C17_MissingPartitionAborts ==
    \A p \in Tasks :
        (resp[p] # NoneOpt
         /\ FindPartition(resp[p][1], config.topic, ConfiguredPartition) = NoneOpt) =>
            /\ pc[p] \in {"so_joined_panic", "done"}
            /\ pc[p] = "so_joined_panic" => result[p] = "none"
            /\ pc[p] = "done" => result[p] = "Panic"
            /\ offset[p] = NoneOpt /\ tpl[p] = <<>>
            /\ assigns[p] = 0

\* a time-based set_offset whose reply had no entry has aborted, the engine's
\* assignment untouched
C17_Witness ==
    \E p \in Tasks :
        /\ IsTimeInterval(arg[p]) /\ resp[p] = Some(<<>>)
        /\ pc[p] = "done" /\ result[p] = "Panic"
        /\ assigns[p] = 0 /\ assignment = <<>>

\* the task has a request queued on the mutex
Queued(p) == \E i \in 1..Len(waiters) : waiters[i] = p

\* C18: the mutex is held only by a task whose operation is in progress (its
\* lock request granted, or inside a section that uses the connection, a live
\* stream included); a task that is idle, between the time lookup and the
\* assign, or finished (Ok, Err, panic) neither holds the mutex nor has a
\* request queued.
C18_NoLeaseLeak ==
    /\ holder # NoTask => pc[holder] \in (LockPcs \cup Critical)
    /\ \A p \in Tasks :
         pc[p] \notin (LockPcs \cup Critical) => (holder # p /\ ~Queued(p))
    /\ \A p \in Tasks :
         (pc[p] = "done" /\ op[p] \in {"set_offset", "for_each"}) =>
             (holder # p /\ ~Queued(p))

\* a set_offset that aborted on a reply without the partition and a for_each
\* that returned an error have both finished, and the mutex is free
C18_Witness ==
    \E p, q \in Tasks :
        /\ op[p] = "set_offset" /\ pc[p] = "done" /\ result[p] = "Panic"
        /\ resp[p] = Some(<<>>)
        /\ op[q] = "for_each" /\ pc[q] = "done" /\ result[q] \in ErrResults
        /\ holder = NoTask /\ waiters = <<>>

\* the positions of a set_offset call that has not returned
SetOffsetPcs ==
    {"so_lookup_lock", "so_lookup", "so_joined_ok", "so_joined_err", "so_joined_panic",
     "so_assign_lock", "so_assign"}

\* C19: a time-based set_offset does not hold the mutex when it asks for it
\* again for the assign (the closure's guard is gone when the lookup is
\* joined), and with no live stream every set_offset call that has started
\* eventually returns or aborts.
C19_SetOffsetTerminates ==
    /\ [](\A p \in Tasks :
            pc[p] \in {"so_joined_ok", "so_joined_err", "so_joined_panic"} => holder # p)
    /\ \A p \in Tasks : (pc[p] \in SetOffsetPcs) ~> (pc[p] = "done")

\* a time-based set_offset that queued behind another call's assign, took
\* the mutex twice and returned Ok
C19_Witness ==
    \E p, q \in Tasks :
        /\ p # q
        /\ IsTimeInterval(arg[p]) /\ pc[p] = "done" /\ result[p] = "Ok"
        /\ lookups[p] = 1 /\ assigns[p] = 1
        /\ pc[q] = "so_assign_lock" /\ holder = q
====
